---- MODULE Spec2Model ----
(***************************************************************************)
(* SmartStep AI: the image-acquisition front ends (ImageUploader with      *)
(* view tagging, LiveScanner with its guided three-step capture), the App  *)
(* component that holds the ImageSet, and the analyzeFootImage service.    *)
(*                                                                         *)
(* Rendering model: React state updates made by one handler (or by one     *)
(* promise / toBlob continuation) are committed, re-rendered and followed  *)
(* by their effects before the next handler runs, so every action below    *)
(* is one handler together with the effects its state changes trigger.     *)
(* A closure created by a render keeps the state values of that render.    *)
(***************************************************************************)
EXTENDS Integers, Sequences, FiniteSets, TLC

\* ---------------------------------------------------------------- bounds
\* longest FileList handed to handleFiles
MaxFiles == 3
\* getUserMedia calls that may be pending at once (mounted and torn-down scanners together)
MaxPendingAcq == 2
\* toBlob callbacks that may be pending at once (mounted and torn-down scanners together)
MaxPendingCaps == 2
\* camera streams that may be referenced at once
MaxStreams == 2
\* analysis requests issued in one behaviour
MaxAnalyses == 2
\* whole-page specification: files in one selection, continuations pending at once
PageMaxFiles == 1
PageMaxPending == 1
\* longest potentialIssues list of an AnalysisResult
MaxIssues == 2
\* close timers of the consultation dialog that may be pending at once
MaxTimers == 2

\* ------------------------------------------------------ program constants
\* "Limit to 3 total images"
MaxImages == 3
IdealWidth == 1920
IdealHeight == 1080

\* ------------------------------------------------------------ value space
Slots == {"top", "side", "back"}
\* key order of the { top, side, back } object literals
ViewKeys == <<"top", "side", "back">>
Steps == {"idle", "top", "side", "back", "done", "error"}

\* image ids are 1, 2, ...; a null slot is 0
NoImage == 0
NoFile == "nullFile"
NoStream == 0
\* a null FileList (not a list of files)
Null == <<"nullArg">>

\* files a user can hand to the uploader, with their MIME types
UploadFiles == {"a.png", "b.jpg", "n.txt"}
Mime(f) == CASE f = "a.png" -> "image/png"
             [] f = "b.jpg" -> "image/jpeg"
             [] f = "n.txt" -> "text/plain"
             [] OTHER -> "image/jpeg"
\* file.type.startsWith('image/')
StartsWithImage(m) == m \in {"image/png", "image/jpeg", "image/webp"}

\* blobToFile(blob, `${currentStep}_capture.jpg`)
blobToFile(currentStep) == CASE currentStep = "top" -> "top_capture.jpg"
                             [] currentStep = "side" -> "side_capture.jpg"
                             [] OTHER -> "back_capture.jpg"

\* URL.createObjectURL(blob) of the frame captured for currentStep
createObjectURL(currentStep) == CASE currentStep = "top" -> "blob:top"
                                  [] currentStep = "side" -> "blob:side"
                                  [] OTHER -> "blob:back"
NoPreview == "nullPreview"

EmptySet3 == [k \in Slots |-> NoFile]
NoPreviews == [k \in Slots |-> NoPreview]
Scanning == {"top", "side", "back"}
InitialTags == [k \in Slots |-> NoImage]

Min(a, b) == IF a < b THEN a ELSE b
Max(a, b) == IF a > b THEN a ELSE b

VARIABLES
  \* App
  mode, appImageFiles, analysisResult, isLoading, error,
  \* ImageUploader
  imageFiles, tags,
  \* LiveScanner (the mounted instance)
  step, stream, previews, filesRef, video, pendingAcq, pendingCaps,
  \* camera device and continuations owned by torn-down scanner instances
  activeStreams, orphanAcq, orphanCaps,
  \* analyzeFootImage calls in progress (at the remote collaborator while their
  \* pc is "remote"), number of remote requests issued, promise settled for a
  \* caller other than App
  reqs, remoteCalls, svcReturn,
  \* TelemedicineModal: App's open flag, the form state, pending setTimeout
  \* callbacks of handleSubmit, and what handleSubmit wrote to the console
  isTelemedicineModalOpen, isSubmitted, name, email, closeTimers, consoleLog,
  \* observation of the run: last handler executed, last two tagImage calls,
  \* whether a started scan is in progress
  last, twice, inScan

appVars == <<mode, appImageFiles, analysisResult, isLoading, error>>
upVars == <<imageFiles, tags>>
scanVars == <<step, stream, previews, filesRef, video, pendingAcq, pendingCaps>>
envVars == <<activeStreams, orphanAcq, orphanCaps>>
svcVars == <<reqs, remoteCalls, svcReturn>>
modalVars == <<isTelemedicineModalOpen, isSubmitted, name, email, closeTimers, consoleLog>>
vars == <<mode, appImageFiles, analysisResult, isLoading, error, imageFiles, tags,
          step, stream, previews, filesRef, video, pendingAcq, pendingCaps,
          activeStreams, orphanAcq, orphanCaps, reqs, remoteCalls, svcReturn,
          isTelemedicineModalOpen, isSubmitted, name, email, closeTimers, consoleLog,
          last, twice, inScan>>

\* ------------------------------------------------------------ sequences
RECURSIVE SelectSeqBy(_, _)
SelectSeqBy(s, i) ==
  IF i > Len(s) THEN <<>>
  ELSE IF StartsWithImage(Mime(s[i])) THEN <<s[i]>> \o SelectSeqBy(s, i + 1)
  ELSE SelectSeqBy(s, i + 1)

\* Array.prototype.filter with the image-MIME predicate
FilterImages(s) == SelectSeqBy(s, 1)

\* Array.prototype.slice(0, n): a negative n counts from the end
SliceTo(s, n) ==
  LET e == IF n < 0 THEN Max(Len(s) + n, 0) ELSE Min(n, Len(s))
  IN SubSeq(s, 1, e)

Ids(held) == {held[i].id : i \in 1..Len(held)}

\* the k-th identity not in use: every accepted file gets a fresh unique id
RECURSIVE FreshFrom(_, _)
FreshFrom(used, n) == IF n \in used THEN FreshFrom(used, n + 1) ELSE n
RECURSIVE MakeImages(_, _)
MakeImages(files, used) ==
  IF files = <<>> THEN <<>>
  ELSE LET id == FreshFrom(used, 1)
       IN <<[id |-> id, file |-> Head(files)]>> \o MakeImages(Tail(files), used \cup {id})

SeqsUpTo(S, n) == UNION {[1..k -> S] : k \in 0..n}
\* the FileLists of at most n files a selection or a drop can deliver: distinct files
FileLists(S, n) == {fl \in SeqsUpTo(S, n) : \A i, j \in 1..Len(fl) : i # j => fl[i] # fl[j]}

\* ------------------------------------------------------- observation
NoTwice == [op |-> "none"]
Other == [op |-> "other"]
Observe(rec) == last' = rec /\ twice' = NoTwice
\* a result or an error is held when a handler starts
Had == analysisResult # [kind |-> "null"] \/ error # "nullError"

\* ------------------------------------------------------------------ App
NoResult == [kind |-> "null"]
NoError == "nullError"
NoReqs == <<>>
NotSettled == [kind |-> "pending"]
NoVideo == [src |-> NoStream, w |-> 0, h |-> 0]
NoLog == [kind |-> "nothing logged"]

\* the consultation dialog closed, its form empty
ModalClosed ==
  /\ isTelemedicineModalOpen = FALSE
  /\ isSubmitted = FALSE
  /\ name = ""
  /\ email = ""
  /\ closeTimers = 0
  /\ consoleLog = NoLog

\* handleImagesChange that stores the files and keeps the result and the error
handleImagesChange_KeepsResult(files) ==
  /\ appImageFiles' = files
  /\ UNCHANGED <<analysisResult, error>>

\* App.handleImagesChange
handleImagesChange(files) ==
  /\ appImageFiles' = files
  /\ analysisResult' = NoResult
  /\ error' = NoError

\* ------------------------------------------------------------------ Init
\* App mounted in upload mode, the uploader's projection effect has run once
Init ==
  /\ mode = "upload"
  /\ appImageFiles = EmptySet3
  /\ analysisResult = NoResult
  /\ isLoading = FALSE
  /\ error = NoError
  /\ imageFiles = <<>>
  /\ tags = InitialTags
  /\ step = "idle"
  /\ stream = NoStream
  /\ previews = NoPreviews
  /\ filesRef = EmptySet3
  /\ video = NoVideo
  /\ pendingAcq = 0
  /\ pendingCaps = <<>>
  /\ activeStreams = {}
  /\ orphanAcq = 0
  /\ orphanCaps = <<>>
  /\ reqs = NoReqs
  /\ remoteCalls = 0
  /\ svcReturn = NotSettled
  /\ ModalClosed
  /\ last = [op |-> "init"]
  /\ twice = NoTwice
  /\ inScan = FALSE

\* -------------------------------------------------------- ImageUploader
\* a projection that hands out the first image's file whatever the tags say
taggedFiles_IgnoresTags(imgs, tg) ==
  [viewKey \in Slots |-> IF imgs # <<>> THEN imgs[1].file ELSE NoFile]

\* the projection effect: taggedFiles
taggedFiles(imgs, tg) ==
  [viewKey \in Slots |->
     IF tg[viewKey] # NoImage /\ \E i \in 1..Len(imgs) : imgs[i].id = tg[viewKey]
     THEN LET i == CHOOSE j \in 1..Len(imgs) :
                     /\ imgs[j].id = tg[viewKey]
                     /\ \A m \in 1..(j - 1) : imgs[m].id # tg[viewKey]
          IN imgs[i].file
     ELSE NoFile]

\* handleFiles with the cap applied to the input alone
handleFiles_CapIgnoresHeld(held, files) ==
  held \o MakeImages(SliceTo(FilterImages(files), MaxImages), Ids(held))

\* handleFiles without the MIME filter
handleFiles_NoFilter(held, files) ==
  held \o MakeImages(SliceTo(files, MaxImages - Len(held)), Ids(held))

\* handleFiles: filter to image MIME types, slice to the free room, append
handleFiles(held, files) ==
  held \o MakeImages(SliceTo(FilterImages(files), MaxImages - Len(held)), Ids(held))

\* removeImage: the two functional updaters
removeFromImages(held, idToRemove) ==
  SelectSeq(held, LAMBDA img : img.id # idToRemove)
removeFromTags(prevTags, idToRemove) ==
  [key \in Slots |-> IF prevTags[key] = idToRemove THEN NoImage ELSE prevTags[key]]

\* handleTag that assigns the new tag without clearing the image's other tag
handleTag_KeepsOldTag(prev, imageId, viewKey) ==
  IF prev[viewKey] = imageId
  THEN [prev EXCEPT ![viewKey] = NoImage]
  ELSE [prev EXCEPT ![viewKey] = imageId]

\* handleTag that always assigns, never untags
handleTag_NoToggle(prev, imageId, viewKey) ==
  [key \in Slots |-> IF key = viewKey THEN imageId
                     ELSE IF prev[key] = imageId THEN NoImage ELSE prev[key]]

\* handleTag that assigns the view and clears every other view
handleTag_ClearsOthers(prev, imageId, viewKey) ==
  IF prev[viewKey] = imageId
  THEN [prev EXCEPT ![viewKey] = NoImage]
  ELSE [key \in Slots |-> IF key = viewKey THEN imageId ELSE NoImage]

\* handleTag: the functional updater passed to setTags
handleTag(prev, imageId, viewKey) ==
  IF prev[viewKey] = imageId
  THEN [prev EXCEPT ![viewKey] = NoImage]
  ELSE [key \in Slots |-> IF key = viewKey THEN imageId
                          ELSE IF prev[key] = imageId THEN NoImage ELSE prev[key]]

\* the handlers of the mounted uploader, each followed by the projection effect
DoHandleFiles(files) ==
  /\ mode = "upload"
  /\ IF files = Null
     THEN UNCHANGED <<imageFiles, appImageFiles, analysisResult, error>>
     ELSE /\ imageFiles' = handleFiles(imageFiles, files)
          /\ handleImagesChange(taggedFiles(imageFiles', tags))
  /\ Observe([op |-> "add", held |-> Len(imageFiles),
              images |-> IF files = Null THEN 0 ELSE Len(FilterImages(files)),
              emits |-> files # Null, had |-> Had, files |-> files])
  /\ UNCHANGED <<modalVars, mode, isLoading, tags, scanVars, envVars, svcVars, inScan>>

DoRemoveImage(idToRemove) ==
  /\ mode = "upload"
  /\ imageFiles' = removeFromImages(imageFiles, idToRemove)
  /\ tags' = removeFromTags(tags, idToRemove)
  /\ handleImagesChange(taggedFiles(imageFiles', tags'))
  /\ Observe([op |-> "remove", id |-> idToRemove,
              tagged |-> \E k \in Slots : tags[k] = idToRemove, had |-> Had])
  /\ UNCHANGED <<modalVars, mode, isLoading, scanVars, envVars, svcVars, inScan>>

DoHandleTag(imageId, viewKey) ==
  /\ mode = "upload"
  /\ tags' = handleTag(tags, imageId, viewKey)
  /\ handleImagesChange(taggedFiles(imageFiles, tags'))
  /\ last' = [op |-> "tag", id |-> imageId, slot |-> viewKey, pre |-> tags[viewKey],
              from |-> {k \in Slots : tags[k] = imageId}, had |-> Had]
  /\ twice' = IF last.op = "tag" /\ last.id = imageId /\ last.slot = viewKey
              THEN [op |-> "twice", id |-> imageId, slot |-> viewKey, before |-> last.pre]
              ELSE NoTwice
  /\ UNCHANGED <<modalVars, mode, isLoading, imageFiles, scanVars, envVars, svcVars, inScan>>

\* ---------------------------------------------------------- LiveScanner
\* stream ids no state, closure or device entry refers to any more
ClosureStreams(caps) == {caps[i].stream : i \in 1..Len(caps)}
FreeStreams ==
  (1..MaxStreams) \ (activeStreams \cup {stream, video.src} \cup ClosureStreams(pendingCaps)
                     \cup UNION {ClosureStreams(orphanCaps[i].caps) : i \in 1..Len(orphanCaps)})
NewStream == CHOOSE s \in FreeStreams : \A t \in FreeStreams : s <= t

RECURSIVE SumCaps(_)
SumCaps(insts) == IF insts = <<>> THEN 0 ELSE Len(Head(insts).caps) + SumCaps(Tail(insts))
PendingCallbacks == Len(pendingCaps) + SumCaps(orphanCaps)

RemoveAt(s, i) == SubSeq(s, 1, i - 1) \o SubSeq(s, i + 1, Len(s))

\* the <video> element after a render: it exists only while isScanning, and the
\* "attach stream to video element" effect assigns srcObject when it differs
attachStream(oldStep, newStep, newStream, v) ==
  LET elem == IF newStep \notin Scanning THEN NoVideo
              ELSE IF oldStep \in Scanning THEN v ELSE NoVideo
  IN IF newStep \in Scanning /\ newStream # NoStream /\ elem.src # newStream
     THEN [src |-> newStream, w |-> 0, h |-> 0]
     ELSE elem

\* stopStream as created by the render in which `stream` had the value s:
\* the device's running streams, and the stream state, after the call
stopStream_tracks(s) == IF s # NoStream THEN activeStreams \ {s} ELSE activeStreams
stopStream_state(s) == IF s # NoStream THEN NoStream ELSE stream

\* the order in which the toBlob callback advances, and its successor step
nextStepOrder == <<"top", "side", "back">>
indexOf(currentStep) == CHOOSE i \in 1..3 : nextStepOrder[i] = currentStep
advance(currentStep) ==
  IF indexOf(currentStep) < Len(nextStepOrder)
  THEN nextStepOrder[indexOf(currentStep) + 1]
  ELSE "done"

\* the value of `stream` seen by the unmount cleanup: the effect has empty
\* dependencies, so its closure is the one of the first render
cleanupClosureStream == NoStream
unmountCleanup(s) == IF s # NoStream THEN activeStreams \ {s} ELSE activeStreams

\* "Start Scan" button: startScan up to its await
StartScanClick ==
  /\ mode = "scan" /\ step = "idle" /\ ~isLoading
  /\ pendingAcq + orphanAcq < MaxPendingAcq
  /\ pendingAcq' = pendingAcq + 1
  /\ Observe(Other)
  /\ UNCHANGED <<modalVars, appVars, upVars, step, stream, previews, filesRef, video, pendingCaps,
                 envVars, svcVars, inScan>>

\* getUserMedia resolves: setStream(mediaStream); setStep('top')
AcquireResolve ==
  /\ mode = "scan" /\ pendingAcq > 0 /\ FreeStreams # {}
  /\ pendingAcq' = pendingAcq - 1
  /\ activeStreams' = activeStreams \cup {NewStream}
  /\ stream' = NewStream
  /\ step' = "top"
  /\ video' = attachStream(step, "top", NewStream, video)
  /\ inScan' = TRUE
  /\ Observe(Other)
  /\ UNCHANGED <<modalVars, appVars, upVars, previews, filesRef, pendingCaps, orphanAcq, orphanCaps,
                 svcVars>>

\* getUserMedia rejects: setStep('error')
AcquireReject ==
  /\ mode = "scan" /\ pendingAcq > 0
  /\ pendingAcq' = pendingAcq - 1
  /\ step' = "error"
  /\ video' = attachStream(step, "error", stream, video)
  /\ Observe(Other)
  /\ UNCHANGED <<modalVars, appVars, upVars, stream, previews, filesRef, pendingCaps, envVars,
                 svcVars, inScan>>

\* the attached stream delivers its first frame: videoWidth/videoHeight become nonzero
VideoLoaded ==
  /\ mode = "scan" /\ video.src # NoStream /\ video.src \in activeStreams
  /\ video.w = 0
  /\ video' = [video EXCEPT !.w = IdealWidth, !.h = IdealHeight]
  /\ Observe(Other)
  /\ UNCHANGED <<modalVars, appVars, upVars, step, stream, previews, filesRef, pendingAcq, pendingCaps,
                 envVars, svcVars, inScan>>

\* handleCapture up to canvas.toBlob: TRUE when the frame is drawn and a callback queued
handleCapture_draws ==
  /\ step \notin {"idle", "done", "error"}
  /\ ~(video.w = 0 \/ video.h = 0)

\* "Capture" button (rendered while isScanning, disabled while analyzing)
CaptureClick ==
  /\ mode = "scan" /\ step \in Scanning /\ ~isLoading
  /\ IF handleCapture_draws
     THEN /\ PendingCallbacks < MaxPendingCaps
          /\ pendingCaps' = Append(pendingCaps, [step |-> step, stream |-> stream])
          /\ Observe(Other)
     ELSE /\ UNCHANGED pendingCaps
          /\ Observe([op |-> "captureIgnored"])
  /\ UNCHANGED <<modalVars, appVars, upVars, step, stream, previews, filesRef, video, pendingAcq,
                 envVars, svcVars, inScan>>

\* the toBlob callback of the mounted scanner; c is the closure of the render
\* in which Capture was clicked
BlobCallback ==
  \E i \in 1..Len(pendingCaps), blob \in {"blob", "null"} :
    LET c == pendingCaps[i]
        currentStep == c.step
    IN /\ mode = "scan"
       /\ pendingCaps' = RemoveAt(pendingCaps, i)
       /\ IF blob = "null"
          THEN /\ UNCHANGED <<appVars, step, stream, previews, filesRef, video,
                              activeStreams, inScan>>
               /\ Observe(Other)
          ELSE /\ previews' = [previews EXCEPT ![currentStep] = createObjectURL(currentStep)]
               /\ filesRef' = [filesRef EXCEPT ![currentStep] = blobToFile(currentStep)]
               /\ handleImagesChange(filesRef')
               /\ step' = advance(currentStep)
               /\ IF advance(currentStep) = "done"
                  THEN /\ activeStreams' = stopStream_tracks(c.stream)
                       /\ stream' = stopStream_state(c.stream)
                  ELSE UNCHANGED <<activeStreams, stream>>
               /\ video' = attachStream(step, step', stream', video)
               /\ Observe([op |-> "record", slot |-> currentStep, at |-> step,
                            had |-> Had])
               /\ UNCHANGED <<mode, isLoading, inScan>>
       /\ UNCHANGED <<modalVars, upVars, pendingAcq, orphanAcq, orphanCaps, svcVars>>

\* handleReset: Reset Scan / Retake Scans (disabled while analyzing), Try Again
HandleReset ==
  /\ mode = "scan"
  /\ \/ step \in Scanning \cup {"done"} /\ ~isLoading
     \/ step = "error"
  /\ activeStreams' = stopStream_tracks(stream)
  /\ stream' = stopStream_state(stream)
  /\ step' = "idle"
  /\ previews' = NoPreviews
  /\ filesRef' = EmptySet3
  /\ handleImagesChange(EmptySet3)
  /\ video' = attachStream(step, "idle", stream', video)
  /\ inScan' = FALSE
  /\ Observe([op |-> "reset", from |-> step, had |-> Had])
  /\ UNCHANGED <<modalVars, mode, isLoading, upVars, pendingAcq, pendingCaps, orphanAcq, orphanCaps,
                 svcVars>>

\* continuations of scanner instances that have been torn down: their setState
\* calls do nothing, their other effects still happen
OrphanAcquireResolve ==
  /\ orphanAcq > 0 /\ FreeStreams # {}
  /\ orphanAcq' = orphanAcq - 1
  /\ activeStreams' = activeStreams \cup {NewStream}
  /\ Observe(Other)
  /\ UNCHANGED <<modalVars, appVars, upVars, scanVars, orphanCaps, svcVars, inScan>>

OrphanAcquireReject ==
  /\ orphanAcq > 0
  /\ orphanAcq' = orphanAcq - 1
  /\ Observe(Other)
  /\ UNCHANGED <<modalVars, appVars, upVars, scanVars, activeStreams, orphanCaps, svcVars, inScan>>

OrphanBlobCallback ==
  \E n \in 1..Len(orphanCaps), blob \in {"blob", "null"} :
    \E i \in 1..Len(orphanCaps[n].caps) :
      LET inst == orphanCaps[n]
          c == inst.caps[i]
          currentStep == c.step
          files == IF blob = "null" THEN inst.files
                   ELSE [inst.files EXCEPT ![currentStep] = blobToFile(currentStep)]
          rest == RemoveAt(inst.caps, i)
      IN /\ orphanCaps' = IF rest = <<>> THEN RemoveAt(orphanCaps, n)
                          ELSE [orphanCaps EXCEPT ![n] = [files |-> files, caps |-> rest]]
         /\ IF blob = "null"
            THEN /\ UNCHANGED <<appVars, activeStreams>>
                 /\ Observe(Other)
            ELSE /\ handleImagesChange(files)
                 /\ activeStreams' = IF advance(currentStep) = "done"
                                     THEN stopStream_tracks(c.stream)
                                     ELSE activeStreams
                 /\ Observe([op |-> "orphanRecord", slot |-> currentStep, had |-> Had])
                 /\ UNCHANGED <<mode, isLoading>>
         /\ UNCHANGED <<modalVars, upVars, scanVars, orphanAcq, svcVars, inScan>>

\* ------------------------------------------------------- App mode switch
\* ModeButton "Live Scan": the uploader unmounts, a fresh scanner mounts
SwitchToScan ==
  /\ mode = "upload"
  /\ mode' = "scan"
  /\ imageFiles' = <<>>
  /\ tags' = InitialTags
  /\ Observe(Other)
  /\ UNCHANGED <<modalVars, appImageFiles, analysisResult, isLoading, error, scanVars, envVars,
                 svcVars, inScan>>

\* ModeButton "Upload Photos": the scanner unmounts (its cleanup runs), a fresh
\* uploader mounts and its projection effect emits the empty ImageSet
SwitchToUpload ==
  /\ mode = "scan"
  /\ mode' = "upload"
  /\ activeStreams' = unmountCleanup(cleanupClosureStream)
  /\ orphanAcq' = orphanAcq + pendingAcq
  /\ orphanCaps' = IF pendingCaps = <<>> THEN orphanCaps
                   ELSE Append(orphanCaps, [files |-> filesRef, caps |-> pendingCaps])
  /\ step' = "idle"
  /\ stream' = NoStream
  /\ previews' = NoPreviews
  /\ filesRef' = EmptySet3
  /\ video' = NoVideo
  /\ pendingAcq' = 0
  /\ pendingCaps' = <<>>
  /\ inScan' = FALSE
  /\ handleImagesChange(taggedFiles(<<>>, InitialTags))
  /\ Observe([op |-> "mount", had |-> Had])
  /\ UNCHANGED <<modalVars, isLoading, upVars, svcVars>>

\* ---------------------------------- the uploader as wired into the page
\* drop zone / file input: rendered only while no image is held, inert while analyzing
AddFiles ==
  /\ imageFiles = <<>> /\ ~isLoading
  /\ \E files \in FileLists(UploadFiles, PageMaxFiles) : DoHandleFiles(files)

\* thumbnail remove button, disabled while analyzing
RemoveImage ==
  /\ ~isLoading
  /\ \E idToRemove \in Ids(imageFiles) : DoRemoveImage(idToRemove)

\* thumbnail tag button: disabled when another image holds the view, or while analyzing
TagImage ==
  /\ ~isLoading
  /\ \E imageId \in Ids(imageFiles), viewKey \in Slots :
       /\ ~(tags[viewKey] # NoImage /\ tags[viewKey] # imageId)
       /\ DoHandleTag(imageId, viewKey)

\* ------------------------------ the page used for Live Scan only: mode
\* switches and the scanner, no uploads and no analysis request
NextScan ==
  \/ SwitchToScan \/ SwitchToUpload
  \/ StartScanClick \/ AcquireResolve \/ AcquireReject \/ VideoLoaded
  \/ CaptureClick \/ BlobCallback \/ HandleReset
  \/ OrphanAcquireResolve \/ OrphanAcquireReject \/ OrphanBlobCallback

SpecScan == Init /\ [][NextScan]_vars

\* the scanner mounted once and never torn down
NextMounted ==
  \/ SwitchToScan
  \/ StartScanClick \/ AcquireResolve \/ AcquireReject \/ VideoLoaded
  \/ CaptureClick \/ BlobCallback \/ HandleReset

SpecMounted == Init /\ [][NextMounted]_vars

\* ------------------------------------------------------ analyzeFootImage
NoImagesMsg == "No images were provided for analysis."
GenericMsg == "Failed to analyze the image. The AI model may be unavailable or the image could not be processed."
UnknownMsg == "An unknown error occurred."

Absent == "absentKey"
UndefinedValue == "undefined"
Truthy(v) == v \notin {Absent, UndefinedValue, NoFile}

\* Object.keys of a FootImages object, in key order
RECURSIVE KeysFrom(_, _)
KeysFrom(obj, i) ==
  IF i > Len(ViewKeys) THEN <<>>
  ELSE IF obj[ViewKeys[i]] # Absent THEN <<ViewKeys[i]>> \o KeysFrom(obj, i + 1)
  ELSE KeysFrom(obj, i + 1)
ObjectKeys(obj) == KeysFrom(obj, 1)

\* App: Object.fromEntries(Object.entries(imageFiles).filter(([_, value]) => value !== null))
imagesToAnalyze(files) ==
  [k \in Slots |-> IF files[k] # NoFile THEN files[k] ELSE Absent]

\* the view list taken from the keys alone, whatever their values
providedViews_AllKeys(arg) == ObjectKeys(arg)

\* Object.keys(imageFiles).filter(key => imageFiles[key])
providedViews(arg) == SelectSeq(ObjectKeys(arg), LAMBDA key : Truthy(arg[key]))

\* the guard before the prompt is built that never throws
isEmptyInput_Never(views) == FALSE

\* providedViews.length === 0
isEmptyInput(views) == Len(views) = 0

\* the catch block that rethrows what it caught
catchBlock_Rethrow(message) == message

\* the catch block: log the cause, throw the generic error
catchBlock(message) == GenericMsg

\* fileToGenerativePart: base64 payload of the data URL, and the MIME type
fileToGenerativePart(file) ==
  [inlineData |-> [data |-> <<"base64", file>>, mimeType |-> Mime(file)]]

viewLabel(k) == CASE k = "top" -> "Top View of the foot:"
                  [] k = "side" -> "Side View (Arch) of the foot:"
                  [] OTHER -> "Back View (Heel) of the foot:"

\* index in ViewKeys of the next `if (imageFiles.<view>)` that holds, from i on; 0 if none
RECURSIVE nextPresent(_, _)
nextPresent(arg, i) ==
  IF i > Len(ViewKeys) THEN 0
  ELSE IF Truthy(arg[ViewKeys[i]]) THEN i
  ELSE nextPresent(arg, i + 1)

\* a call that is sent and then sent again
issueRequest_Resend(n) == n + 2

\* one more generateContent call has been made
issueRequest(n) == n + 1

\* ai.models.generateContent is invoked with the prompt and the image parts
remoteRequest(r) == [contents |-> <<[text |-> r.views]>> \o r.parts]

Rejected(message) == [kind |-> "rejected", message |-> message]
Resolved(result) == [kind |-> "resolved", result |-> result]

\* App.handleAnalyzeClick after the await: try / catch / finally
appContinuation(settled) ==
  /\ IF settled.kind = "resolved"
     THEN analysisResult' = settled.result /\ error' = NoError
     ELSE error' = settled.message /\ analysisResult' = NoResult
  /\ isLoading' = FALSE

\* the call settles: App continues after its await, another caller gets the promise
Settle(via, settled) ==
  IF via = "click"
  THEN appContinuation(settled) /\ UNCHANGED svcReturn
  ELSE svcReturn' = settled /\ UNCHANGED <<analysisResult, error, isLoading>>

\* analyzeFootImage up to its first await, called with arg by `via`
BeginAnalyze(via, arg) ==
  LET views == providedViews(arg)
      first == nextPresent(arg, 1)
  IN IF isEmptyInput(views)
     THEN /\ UNCHANGED <<reqs, remoteCalls>>
          /\ Settle(via, Rejected(catchBlock(NoImagesMsg)))
     ELSE /\ IF via = "click"
             THEN /\ isLoading' = TRUE /\ error' = NoError /\ analysisResult' = NoResult
                  /\ UNCHANGED svcReturn
             ELSE /\ svcReturn' = NotSettled
                  /\ UNCHANGED <<analysisResult, error, isLoading>>
          /\ IF first = 0
             THEN /\ reqs' = Append(reqs,
                               [pc |-> "remote", via |-> via, arg |-> arg, views |-> views,
                                parts |-> <<>>, at |-> 0, sentBefore |-> remoteCalls,
                                sent |-> remoteRequest([views |-> views, parts |-> <<>>])])
                  /\ remoteCalls' = issueRequest(remoteCalls)
             ELSE /\ reqs' = Append(reqs,
                               [pc |-> "encoding", via |-> via, arg |-> arg, views |-> views,
                                parts |-> <<>>, at |-> first, sentBefore |-> remoteCalls,
                                sent |-> <<>>])
                  /\ UNCHANGED remoteCalls

\* App.handleAnalyzeClick, up to its await
handleAnalyzeClick ==
  LET arg == imagesToAnalyze(appImageFiles)
  IN /\ remoteCalls < MaxAnalyses /\ Len(reqs) < MaxAnalyses
     /\ IF Len(ObjectKeys(arg)) = 0
        THEN UNCHANGED <<analysisResult, isLoading, error, svcVars>>
        ELSE BeginAnalyze("click", arg)
     /\ Observe([op |-> "analyze", via |-> "click", empty |-> appImageFiles = EmptySet3,
                 sentBefore |-> remoteCalls])
     /\ UNCHANGED <<modalVars, mode, appImageFiles, upVars, scanVars, envVars, inScan>>

\* a FileReader finishes reading the file awaited on: its part is pushed, and the
\* next present view is read, or the remote request is issued
EncodeDone ==
  \E n \in 1..Len(reqs) :
    /\ reqs[n].pc = "encoding"
    /\ LET r == reqs[n]
           k == ViewKeys[r.at]
           parts == r.parts \o <<[text |-> viewLabel(k)], fileToGenerativePart(r.arg[k])>>
           nxt == nextPresent(r.arg, r.at + 1)
       IN IF nxt = 0
          THEN /\ reqs' = [reqs EXCEPT ![n] =
                             [r EXCEPT !.pc = "remote", !.parts = parts, !.at = 0,
                                       !.sent = remoteRequest([views |-> r.views,
                                                               parts |-> parts])]]
               /\ remoteCalls' = issueRequest(remoteCalls)
          ELSE /\ reqs' = [reqs EXCEPT ![n] = [r EXCEPT !.parts = parts, !.at = nxt]]
               /\ UNCHANGED remoteCalls
    /\ Observe(Other)
    /\ UNCHANGED <<modalVars, appVars, upVars, scanVars, envVars, svcReturn, inScan>>

\* the FileReader fails: onloadend runs with a null result, the split throws
\* inside the event callback and the promise awaited on is never settled
ReadFails ==
  \E n \in 1..Len(reqs) :
    /\ reqs[n].pc = "encoding"
    /\ reqs' = [reqs EXCEPT ![n].pc = "stuck"]
    /\ Observe(Other)
    /\ UNCHANGED <<modalVars, appVars, upVars, scanVars, envVars, remoteCalls, svcReturn, inScan>>

\* what the remote collaborator may answer
RemoteOutcomes == {"complete", "missingField", "notJson", "unavailable"}

\* response.text.trim(); JSON.parse(jsonString); return result  -- or the catch block
settleRemote(r, outcome) ==
  CASE outcome = "complete" -> Resolved([kind |-> "result", complete |-> TRUE, of |-> r.arg])
    [] outcome = "missingField" -> Resolved([kind |-> "result", complete |-> FALSE, of |-> r.arg])
    [] outcome = "notJson" -> Rejected(catchBlock("SyntaxError"))
    [] OTHER -> Rejected(catchBlock("unavailable"))

RemoteResponds ==
  \E n \in 1..Len(reqs) :
    /\ reqs[n].pc = "remote"
    /\ \E outcome \in RemoteOutcomes :
         /\ Settle(reqs[n].via, settleRemote(reqs[n], outcome))
         /\ Observe([op |-> "settled", via |-> reqs[n].via, outcome |-> outcome,
                     sentBefore |-> reqs[n].sentBefore])
    /\ reqs' = RemoveAt(reqs, n)
    /\ UNCHANGED <<modalVars, mode, appImageFiles, upVars, scanVars, envVars, remoteCalls, inScan>>

\* ------------- the analysis functions called directly on drawn inputs
\* ImageSets App can hold, FootImages objects a caller can pass
ServiceFiles == {"a.png", "top_capture.jpg"}
ImageSets == [Slots -> ServiceFiles \cup {NoFile}]
FootImagesArgs == [Slots -> {"a.png", Absent, UndefinedValue}]

InitService ==
  /\ appImageFiles \in ImageSets
  /\ mode = "upload"
  /\ analysisResult = NoResult
  /\ isLoading = FALSE
  /\ error = NoError
  /\ imageFiles = <<>>
  /\ tags = InitialTags
  /\ step = "idle"
  /\ stream = NoStream
  /\ previews = NoPreviews
  /\ filesRef = EmptySet3
  /\ video = NoVideo
  /\ pendingAcq = 0
  /\ pendingCaps = <<>>
  /\ activeStreams = {}
  /\ orphanAcq = 0
  /\ orphanCaps = <<>>
  /\ reqs = NoReqs
  /\ remoteCalls = 0
  /\ svcReturn = NotSettled
  /\ ModalClosed
  /\ last = [op |-> "init"]
  /\ twice = NoTwice
  /\ inScan = FALSE

\* handleAnalyzeClick invoked on the held ImageSet, one call at a time
CallHandler == reqs = NoReqs /\ handleAnalyzeClick

\* analyzeFootImage(arg) invoked by a caller other than App
CallService ==
  /\ reqs = NoReqs
  /\ remoteCalls < MaxAnalyses
  /\ \E arg \in FootImagesArgs :
       /\ BeginAnalyze("call", arg)
       /\ Observe([op |-> "analyze", via |-> "call", empty |-> providedViews(arg) = <<>>,
                   sentBefore |-> remoteCalls])
  /\ UNCHANGED <<modalVars, mode, appImageFiles, upVars, scanVars, envVars, inScan>>

NextService == CallHandler \/ CallService \/ EncodeDone \/ ReadFails \/ RemoteResponds

SpecService == InitService /\ [][NextService]_vars

\* ------------------------------------- the uploader's operations, called
\* directly in any order (addFiles / removeImage / tagImage of the component)
ManualAddFiles ==
  \E files \in FileLists(UploadFiles, MaxFiles) \cup {Null} : DoHandleFiles(files)

ManualRemoveImage ==
  \E idToRemove \in Ids(imageFiles) \cup {FreshFrom(Ids(imageFiles), 1)} :
    DoRemoveImage(idToRemove)

ManualTagImage ==
  \E imageId \in Ids(imageFiles), viewKey \in Slots : DoHandleTag(imageId, viewKey)

NextManual == ManualAddFiles \/ ManualRemoveImage \/ ManualTagImage

SpecManual == Init /\ [][NextManual]_vars

\* ------------------------------------------------ the whole page in use
\* an "Analyze Foot" button that stays enabled while a request is outstanding
AnalyzeClick_IgnoresLoading ==
  /\ (\E k \in Slots : appImageFiles[k] # NoFile)
  /\ handleAnalyzeClick

\* "Analyze Foot" button: disabled without an image or while a request is outstanding
AnalyzeClick ==
  /\ (\E k \in Slots : appImageFiles[k] # NoFile) /\ ~isLoading
  /\ handleAnalyzeClick

\* the scanner's buttons, with the bound on pending continuations
PageStartScanClick == pendingAcq + orphanAcq < PageMaxPending /\ StartScanClick
PageCaptureClick == PendingCallbacks < PageMaxPending /\ CaptureClick

Next ==
  \/ AddFiles \/ RemoveImage \/ TagImage
  \/ SwitchToScan \/ SwitchToUpload
  \/ PageStartScanClick \/ AcquireResolve \/ AcquireReject \/ VideoLoaded
  \/ PageCaptureClick \/ BlobCallback \/ HandleReset
  \/ OrphanAcquireResolve \/ OrphanAcquireReject \/ OrphanBlobCallback
  \/ AnalyzeClick \/ EncodeDone \/ ReadFails \/ RemoteResponds

Spec == Init /\ [][Next]_vars

\* each acquisition component in use while it is mounted: the uploader's
\* operations, then, after the switch to Live Scan, the scanner
NextComponents ==
  \/ ManualAddFiles \/ ManualRemoveImage \/ ManualTagImage
  \/ SwitchToScan
  \/ StartScanClick \/ AcquireResolve \/ AcquireReject \/ VideoLoaded
  \/ CaptureClick \/ BlobCallback \/ HandleReset

SpecComponents == Init /\ [][NextComponents]_vars

\* ------------- App alone: its handlers called as the page can call them,
\* the mounted acquisition component standing for any ImageSet it may emit
\* the onImagesChange prop called by the mounted component (or by a callback
\* of a torn-down one) with an ImageSet
OnImagesChange ==
  /\ \E files \in ImageSets : handleImagesChange(files)
  /\ Observe([op |-> "emit", had |-> Had])
  /\ UNCHANGED <<modalVars, mode, isLoading, upVars, scanVars, envVars, svcVars, inScan>>

NextApp ==
  \/ OnImagesChange \/ SwitchToScan \/ SwitchToUpload
  \/ AnalyzeClick \/ EncodeDone \/ ReadFails \/ RemoteResponds

SpecApp == Init /\ [][NextApp]_vars

\* ---------------------------------------------------- TelemedicineModal
\* AnalysisResults handed to the dialog: every field present and non-empty,
\* the issue list of any length up to the bound, the score anywhere in 0..100
Scores == {0, 50, 100}
PotentialIssues ==
  {[issue |-> "Bunion", severity |-> "Mild", description |-> "seen in Top View"],
   [issue |-> "Overpronation", severity |-> "Severe", description |-> "seen in Back View"]}
AnalysisResults ==
  [kind : {"result"}, archType : {"Flat"}, potentialIssues : SeqsUpTo(PotentialIssues, MaxIssues),
   summary : {"Flat arch."}, clinicalRecommendations : {<<"Gait analysis">>},
   footwearSuggestions : {<<"Arch support", "Wide toe box">>}, confidenceScore : Scores]
Names == {"", "Ann"}
Emails == {"", "ann@example.org"}

\* analysisResult?.field : no value when the result is null
Chain(r, field) ==
  IF r.kind = "null" THEN [some |-> FALSE] ELSE [some |-> TRUE, val |-> r[field]]

\* a text is a sequence of lines (the operands of join('\n')), a line the
\* sequence of the pieces its template concatenates
NA == <<<<"N/A">>>>
\* the bullet character U+2022 and the space that open a bullet line
Bullet == "U+2022 "

\* formatPotentialIssues with no test for the empty list
formatPotentialIssues_AlwaysBullets(issues) ==
  IF ~issues.some
  THEN <<<<"None detected">>>>
  ELSE [i \in 1..Len(issues.val) |->
          <<Bullet, issues.val[i].issue, " (", issues.val[i].severity, "): ",
            issues.val[i].description>>]

\* formatPotentialIssues
formatPotentialIssues(issues) ==
  IF ~issues.some \/ Len(issues.val) = 0
  THEN <<<<"None detected">>>>
  ELSE [i \in 1..Len(issues.val) |->
          <<Bullet, issues.val[i].issue, " (", issues.val[i].severity, "): ",
            issues.val[i].description>>]

\* ${string || 'N/A'}: undefined and the empty string are falsy
stringOrNA(v) == IF v.some /\ v.val # "" THEN <<<<v.val>>>> ELSE NA

\* ${list?.map(s => `U+2022 ${s}`).join('\n') || 'N/A'}: the join of no line is ''
bulletsOrNA(v) ==
  IF v.some /\ Len(v.val) > 0 THEN [i \in 1..Len(v.val) |-> <<Bullet, v.val[i]>>] ELSE NA

\* ${number || 'N/A'}: undefined and 0 are falsy
numberOrNA(v) == IF v.some /\ v.val # 0 THEN ToString(v.val) ELSE "N/A"

\* analysisSummaryForEmail: the interpolated parts of the template
analysisSummaryForEmail(r) ==
  [archType |-> stringOrNA(Chain(r, "archType")),
   potentialIssues |-> formatPotentialIssues(Chain(r, "potentialIssues")),
   summary |-> stringOrNA(Chain(r, "summary")),
   footwearSuggestions |-> bulletsOrNA(Chain(r, "footwearSuggestions")),
   clinicalRecommendations |-> bulletsOrNA(Chain(r, "clinicalRecommendations")),
   confidenceScore |-> <<"Confidence Score: ", numberOrNA(Chain(r, "confidenceScore")), "%">>]

\* "Connect with a Specialist" (ResultDisplay): openTelemedicineModal, then the
\* dialog's effect on isOpen resets the form
openTelemedicineModal ==
  /\ ~isTelemedicineModalOpen
  /\ ~isLoading /\ error = NoError /\ analysisResult # NoResult
  /\ isTelemedicineModalOpen' = TRUE
  /\ isSubmitted' = FALSE
  /\ name' = ""
  /\ email' = ""
  /\ Observe(Other)
  /\ UNCHANGED <<appVars, upVars, scanVars, envVars, svcVars, closeTimers, consoleLog, inScan>>

\* the dialog's close and Cancel buttons: onClose
closeTelemedicineModal ==
  /\ isTelemedicineModalOpen
  /\ isTelemedicineModalOpen' = FALSE
  /\ Observe(Other)
  /\ UNCHANGED <<appVars, upVars, scanVars, envVars, svcVars, isSubmitted, name, email,
                 closeTimers, consoleLog, inScan>>

\* the form's inputs: setName, setEmail
ChangeName ==
  /\ isTelemedicineModalOpen /\ ~isSubmitted
  /\ \E v \in Names : v # name /\ name' = v
  /\ Observe(Other)
  /\ UNCHANGED <<appVars, upVars, scanVars, envVars, svcVars, isTelemedicineModalOpen,
                 isSubmitted, email, closeTimers, consoleLog, inScan>>

ChangeEmail ==
  /\ isTelemedicineModalOpen /\ ~isSubmitted
  /\ \E v \in Emails : v # email /\ email' = v
  /\ Observe(Other)
  /\ UNCHANGED <<appVars, upVars, scanVars, envVars, svcVars, isTelemedicineModalOpen,
                 isSubmitted, name, closeTimers, consoleLog, inScan>>

\* handleSubmit (both inputs are required)
handleSubmit ==
  /\ isTelemedicineModalOpen /\ ~isSubmitted
  /\ name # "" /\ email # ""
  /\ closeTimers < MaxTimers
  /\ isSubmitted' = TRUE
  /\ consoleLog' = [name |-> name, email |-> email,
                    analysisSummary |-> analysisSummaryForEmail(analysisResult)]
  /\ closeTimers' = closeTimers + 1
  /\ Observe([op |-> "submit"])
  /\ UNCHANGED <<appVars, upVars, scanVars, envVars, svcVars, isTelemedicineModalOpen,
                 name, email, inScan>>

\* the 3 s timer of handleSubmit fires: onClose
CloseTimerFires ==
  /\ closeTimers > 0
  /\ closeTimers' = closeTimers - 1
  /\ isTelemedicineModalOpen' = FALSE
  /\ Observe(Other)
  /\ UNCHANGED <<appVars, upVars, scanVars, envVars, svcVars, isSubmitted, name, email,
                 consoleLog, inScan>>

\* the page after a successful analysis, with any AnalysisResult
InitMessage ==
  /\ analysisResult \in AnalysisResults
  /\ mode = "upload"
  /\ appImageFiles = EmptySet3
  /\ isLoading = FALSE
  /\ error = NoError
  /\ imageFiles = <<>>
  /\ tags = InitialTags
  /\ step = "idle"
  /\ stream = NoStream
  /\ previews = NoPreviews
  /\ filesRef = EmptySet3
  /\ video = NoVideo
  /\ pendingAcq = 0
  /\ pendingCaps = <<>>
  /\ activeStreams = {}
  /\ orphanAcq = 0
  /\ orphanCaps = <<>>
  /\ reqs = NoReqs
  /\ remoteCalls = 0
  /\ svcReturn = NotSettled
  /\ ModalClosed
  /\ last = [op |-> "init"]
  /\ twice = NoTwice
  /\ inScan = FALSE

\* the dialog in use; an ImageSet emitted meanwhile discards the result
NextMessage ==
  \/ openTelemedicineModal \/ closeTelemedicineModal
  \/ ChangeName \/ ChangeEmail \/ handleSubmit \/ CloseTimerFires
  \/ OnImagesChange

SpecMessage == InitMessage /\ [][NextMessage]_vars

\* ----------------------------------------------------------------- claims
\* C1: after any sequence of addFiles, removeImage and tagImage operations the
\* SlotTagMap is well-formed: no image id is held by two distinct slots, and
\* every non-null slot value is the id of an image currently in the collection.
C1_SlotTagMapWellFormed ==
  /\ \A k1 \in Slots, k2 \in Slots :
       (k1 # k2 /\ tags[k1] # NoImage) => tags[k1] # tags[k2]
  /\ \A k \in Slots : tags[k] # NoImage => tags[k] \in Ids(imageFiles)

\* an image tagged in one slot has just been re-tagged into another slot
C1_Witness ==
  /\ last.op = "tag"
  /\ last.from # {} /\ last.slot \notin last.from
  /\ tags[last.slot] = last.id

\* C2: after any sequence of addFiles calls, interleaved with removeImage, the
\* CandidateImage collection never holds more than 3 images.
C2_AtMostThreeImages == Len(imageFiles) <= MaxImages

\* addFiles was called with more image files than there was room for
C2_Witness ==
  /\ last.op = "add"
  /\ last.held > 0
  /\ last.held + last.images > MaxImages
  /\ Len(imageFiles) = MaxImages

\* C3 (as claimed): calling tagImage(id, slot) twice in succession with the same
\* arguments leaves that slot unassigned, whatever the slot held before.
C3_TwiceAlwaysUnassigns ==
  twice.op = "twice" => tags[twice.slot] = NoImage

\* C3 (amended): two successive tagImage(id, slot) calls leave the slot
\* unassigned when the slot did not map to id before the first call, and leave
\* it mapped to id when it did.
C3_TwiceUnassignsIfNotTagged ==
  twice.op = "twice" =>
    IF twice.before # twice.id
    THEN tags[twice.slot] = NoImage
    ELSE tags[twice.slot] = twice.id

\* tagImage(id, slot) ran twice in succession on a slot another image held
C3_Witness ==
  /\ twice.op = "twice"
  /\ twice.before \notin {twice.id, NoImage}
  /\ tags[twice.slot] = NoImage

\* C4: between a start and the next reset the scan step takes the values top,
\* side, back, done in that order: no phase is skipped or entered twice, and
\* done is reached only from back.
C4_PhasesInOrder ==
  [][(inScan /\ inScan' /\ step' # step) =>
       /\ step' = "top" => step \in {"idle", "error"}
       /\ step' = "side" => step = "top"
       /\ step' = "back" => step = "side"
       /\ step' = "done" => step = "back"]_vars

\* C5: a captured frame is recorded only while the scanner is in a capturing
\* phase and only into the slot of the phase current when it is recorded; a
\* capture attempted with a zero-sized video frame changes no state.
C5_RecordedIntoCurrentPhase ==
  [][/\ last'.op = "record" => (last'.at \in Scanning /\ last'.slot = last'.at)
     /\ last'.op = "captureIgnored" =>
          UNCHANGED <<appVars, upVars, scanVars, envVars, svcVars>>]_vars

\* C6: reset/retake from a capturing phase or from done leaves the scanner idle
\* with all slot files and previews empty, the consumer's ImageSet empty, and
\* no camera stream acquired by the scanner still running.
C6_ResetClearsAndReleases ==
  (last.op = "reset" /\ last.from \in Scanning \cup {"done"}) =>
    /\ step = "idle"
    /\ filesRef = EmptySet3 /\ previews = NoPreviews
    /\ appImageFiles = EmptySet3
    /\ activeStreams = {}

\* C7: whenever the scan step is idle, done or error, no camera stream acquired
\* by the scanner is still active.
C7_NoStreamOutsideCapturing ==
  (mode = "scan" /\ step \in {"idle", "done", "error"}) => activeStreams = {}

\* C8: once the scanner has been torn down (the page shows the uploader), every
\* camera stream it acquired is stopped.
C8_TeardownStopsStreams ==
  mode = "upload" => activeStreams = {}

\* C9: the remote AI service is never invoked with an empty ImageSet: an Analyze
\* action or an analyzeFootImage call made with no slot populated issues no
\* remote request.
C9_NoRemoteCallOnEmptyInput ==
  /\ \A n \in 1..Len(reqs) :
       reqs[n].pc = "remote" =>
         (Len(reqs[n].sent.contents) > 1 /\ \E k \in Slots : Truthy(reqs[n].arg[k]))
  /\ (last.op = "analyze" /\ last.empty) =>
       (reqs = NoReqs /\ remoteCalls = last.sentBefore)

\* an analysis was requested with no slot populated, and nothing was sent
C9_Witness ==
  /\ last.op = "analyze" /\ last.empty /\ last.via = "call"
  /\ svcReturn.kind = "rejected"
  /\ remoteCalls = last.sentBefore

\* C10: an analysis request made with an empty ImageSet fails with the specific
\* local "no images provided" error, distinct from the generic remote-failure
\* error, and that message is what the user is shown.
C10_EmptyInputSpecificError ==
  (last.op = "analyze" /\ last.empty /\ last.via = "call") =>
    /\ NoImagesMsg # GenericMsg
    /\ svcReturn = Rejected(NoImagesMsg)

\* C11: every failure of an analysis request (empty input, remote transport or
\* availability failure, response body that does not parse) reaches the caller
\* as the one generic error message; the error state shown to the user never
\* holds the original cause.
C11_FailuresSurfaceGeneric ==
  /\ error \in {NoError, GenericMsg}
  /\ svcReturn.kind = "rejected" => svcReturn.message = GenericMsg
  /\ (last.op = "settled" /\ last.outcome \in {"notJson", "unavailable"}) =>
       IF last.via = "click"
       THEN error = GenericMsg /\ analysisResult = NoResult
       ELSE svcReturn = Rejected(GenericMsg)
  /\ (last.op = "analyze" /\ last.via = "call" /\ last.empty) =>
       svcReturn = Rejected(GenericMsg)

\* the remote answered the request of an Analyze click with a body that is not
\* JSON, and the user is shown the generic message
C11_Witness ==
  /\ last.op = "settled" /\ last.via = "click" /\ last.outcome = "notJson"
  /\ error = GenericMsg

\* C12: when the remote response parses but omits a required AnalysisResult
\* field, the request fails with the generic error and no AnalysisResult is
\* stored or returned.
C12_MissingFieldIsFailure ==
  (last.op = "settled" /\ last.outcome = "missingField") =>
    IF last.via = "click"
    THEN error = GenericMsg /\ analysisResult = NoResult
    ELSE svcReturn = Rejected(GenericMsg)

\* C13: the request built for an input whose populated slots are S holds, after
\* the instruction, exactly one (label, encoded image) pair per slot of S in
\* the order top, side, back, nothing for a slot outside S, and the
\* instruction lists exactly the views of S.
C13_RequestHoldsExactlyPopulated ==
  \A n \in 1..Len(reqs) :
    reqs[n].pc = "remote" =>
      LET arg == reqs[n].arg
          c == reqs[n].sent.contents
          S == {k \in Slots : Truthy(arg[k])}
          listed == c[1].text
          pairs == (Len(c) - 1) \div 2
          slotOf(j) == CHOOSE k \in Slots : viewLabel(k) = c[2 * j].text
      IN /\ {listed[i] : i \in 1..Len(listed)} = S
         /\ Len(listed) = Cardinality(S)
         /\ Len(c) = 1 + 2 * Cardinality(S)
         /\ \A j \in 1..pairs :
              /\ \E k \in S : c[2 * j] = [text |-> viewLabel(k)]
              /\ c[2 * j + 1] = fileToGenerativePart(arg[slotOf(j)])
         /\ \A k \in S : Cardinality({j \in 1..pairs : slotOf(j) = k}) = 1

\* a request was sent for an input with the side slot alone: the side image
\* only, and "side" as the only listed view
C13_Witness ==
  \E n \in 1..Len(reqs) :
    /\ reqs[n].pc = "remote"
    /\ {k \in Slots : Truthy(reqs[n].arg[k])} = {"side"}
    /\ reqs[n].sent.contents =
         <<[text |-> <<"side">>], [text |-> viewLabel("side")],
           fileToGenerativePart(reqs[n].arg["side"])>>

\* C14: at most one analysis request is outstanding at any time, and isLoading
\* is true while it is: the Analyze trigger cannot start a second request
\* before the first has resolved or failed.
C14_AtMostOneOutstanding ==
  /\ Len(reqs) <= 1
  /\ reqs # NoReqs => isLoading

\* a request is outstanding while an image is held: isLoading alone keeps the
\* Analyze trigger disabled
C14_Witness ==
  /\ Len(reqs) = 1 /\ reqs[1].pc = "remote"
  /\ isLoading
  /\ \E k \in Slots : appImageFiles[k] # NoFile

C16_RetryAlwaysPossible ==
  /\ isLoading => \E n \in 1..Len(reqs) : reqs[n].pc \in {"encoding", "remote"}
  /\ (mode = "scan" /\ step = "error") => ENABLED HandleReset

\* C17: a switch of acquisition mode, in either direction, leaves the ImageSet
\* held for analysis empty.
C17_SwitchDiscardsImageSet ==
  [][mode' # mode => appImageFiles' = EmptySet3]_vars

\* C18: every onImagesChange emission delivered to App, from the uploader or
\* from the scanner, leaves the AnalysisResult and the error null.
C18_EmissionClearsResultAndError ==
  (/\ last.op \in {"emit", "add", "remove", "tag", "record", "orphanRecord", "reset",
                   "mount"}
   /\ last.op = "add" => last.emits) =>
    (analysisResult = NoResult /\ error = NoError)

\* an emission was delivered while a result or an error was held
C18_Witness ==
  /\ last.op \in {"emit", "remove", "tag", "record", "reset", "mount"}
  /\ last.had
  /\ analysisResult = NoResult /\ error = NoError

\* C19: the retry action of the scan error state re-attempts camera
\* acquisition: after it an acquisition is pending.
C19_RetryReacquires ==
  (last.op = "reset" /\ last.from = "error") => pendingAcq > 0

\* C20: between a start and the next reset each phase records one image: no
\* frame is recorded into a slot that already holds one.
C20_OneImagePerPhase ==
  [][last'.op = "record" => filesRef[last'.slot] = NoFile]_vars

\* C21: App never holds a result and an error together, holds neither while a
\* request is outstanding, and every completed request of an Analyze click
\* ends with exactly one of a complete result or an error.
C21_ResultXorError ==
  /\ ~(analysisResult # NoResult /\ error # NoError)
  /\ reqs # NoReqs => (analysisResult = NoResult /\ error = NoError)
  /\ (last.op = "settled" /\ last.via = "click") =>
       \/ analysisResult # NoResult /\ analysisResult.complete /\ error = NoError
       \/ analysisResult = NoResult /\ error # NoError

\* C22: the consultation message logged for an AnalysisResult with an empty
\* potentialIssues list holds the single line 'None detected' in the
\* potential-issues section; for a non-empty list it holds one bullet line
\* '<issue> (<severity>): <description>' per issue, in order.
C22_IssuesRendering ==
  (last.op = "submit" /\ analysisResult # NoResult) =>
    LET issues == analysisResult.potentialIssues
        text == consoleLog.analysisSummary.potentialIssues
    IN IF issues = <<>>
       THEN text = <<<<"None detected">>>>
       ELSE /\ Len(text) = Len(issues)
            /\ \A i \in 1..Len(issues) :
                 text[i] = <<Bullet, issues[i].issue, " (", issues[i].severity, "): ",
                             issues[i].description>>

\* a consultation request was submitted for a result with no potential issue
C22_Witness ==
  /\ last.op = "submit"
  /\ analysisResult # NoResult /\ analysisResult.potentialIssues = <<>>
  /\ consoleLog.analysisSummary.potentialIssues = <<<<"None detected">>>>

\* C23: the consultation message logged shows 'N/A' for a field only when the
\* AnalysisResult is absent; for a present result the confidence-score line
\* shows the result's confidenceScore, whatever its value in 0..100.
C23_NAOnlyWhenAbsent ==
  last.op = "submit" =>
    LET m == consoleLog.analysisSummary
    IN IF analysisResult = NoResult
       THEN /\ m.archType = NA /\ m.summary = NA
            /\ m.footwearSuggestions = NA /\ m.clinicalRecommendations = NA
            /\ m.confidenceScore[2] = "N/A"
       ELSE /\ m.archType # NA /\ m.summary # NA
            /\ m.footwearSuggestions # NA /\ m.clinicalRecommendations # NA
            /\ m.confidenceScore[2] = ToString(analysisResult.confidenceScore)

\* C24: tagImage(id, slot) called while slot does not map to id leaves slot
\* mapped to id, id in no other slot, the image that held slot untagged, and
\* every slot not involved in the call as it was.
C24_TagAssignsExclusively ==
  [][(last'.op = "tag" /\ tags[last'.slot] # last'.id) =>
       LET id == last'.id
           slot == last'.slot
           prior == tags[slot]
       IN /\ tags'[slot] = id
          /\ \A k \in Slots \ {slot} : tags'[k] # id
          /\ prior # NoImage => \A k \in Slots : tags'[k] # prior
          /\ \A k \in Slots \ {slot} : tags[k] # id => tags'[k] = tags[k]]_vars

\* an image tagged in one slot was tagged into a slot another image held, while
\* the third slot held a third image
C24_Witness ==
  /\ last.op = "tag"
  /\ last.pre \notin {NoImage, last.id}
  /\ last.from # {} /\ last.slot \notin last.from
  /\ tags[last.slot] = last.id
  /\ \E k \in Slots \ {last.slot} : tags[k] \notin {NoImage, last.id}

\* C25: after every mutation in the mounted acquisition component the ImageSet
\* App holds equals that component's slots: after an uploader operation, for
\* each slot the file of the candidate tagged to it, else null; after a
\* capture or a reset of the scanner, the files captured so far.
C25_EmittedEqualsSlots ==
  /\ (last.op \in {"add", "remove", "tag"} /\ (last.op = "add" => last.emits)) =>
       \A k \in Slots :
         IF \E i \in 1..Len(imageFiles) : imageFiles[i].id = tags[k]
         THEN \E i \in 1..Len(imageFiles) :
                imageFiles[i].id = tags[k] /\ appImageFiles[k] = imageFiles[i].file
         ELSE appImageFiles[k] = NoFile
  /\ last.op \in {"record", "reset"} => appImageFiles = filesRef
  /\ last.op = "reset" => appImageFiles = EmptySet3

\* the first capture has been recorded and App holds the partial ImageSet, the
\* scan not yet done
C25_Witness ==
  /\ last.op = "record" /\ last.slot = "top"
  /\ step = "side"
  /\ appImageFiles = [EmptySet3 EXCEPT !["top"] = "top_capture.jpg"]

\* C26: with h candidates held, addFiles appends exactly the first
\* min(k, 3 - h) image-MIME files of the input in input order (k the number of
\* image-MIME files passed), each as a new candidate, and leaves the held
\* candidates, the tags and the error state unchanged.
C26_AddAppendsUpToCap ==
  [][(last'.op = "add" /\ last'.emits) =>
       LET input == last'.files
           images == SelectSeq(input, LAMBDA f : Mime(f) \in {"image/png", "image/jpeg"})
           h == Len(imageFiles)
           n == IF Len(images) < 3 - h THEN Len(images) ELSE 3 - h
       IN /\ Len(imageFiles') = h + n
          /\ \A i \in 1..h : imageFiles'[i] = imageFiles[i]
          /\ \A j \in 1..n : /\ imageFiles'[h + j].file = images[j]
                             /\ \A i \in 1..(h + j - 1) :
                                  imageFiles'[i].id # imageFiles'[h + j].id
          /\ tags' = tags
          /\ error' = NoError]_vars

\* with 2 candidates held, addFiles was passed two image files and a text
\* file, and exactly one more candidate was accepted
C26_Witness ==
  /\ last.op = "add" /\ last.emits
  /\ last.held = 2
  /\ Len(last.files) = 3 /\ last.images = 2
  /\ Len(imageFiles) = 3
  /\ imageFiles[3].file = IF last.files[1] = "n.txt" THEN last.files[2] ELSE last.files[1]

\* C27: in done all three slots hold a captured image, and in capturing(side)
\* or capturing(back) every earlier slot of the order top, side, back holds one.
C27_EarlierSlotsFilled ==
  mode = "scan" =>
    /\ step = "side" => filesRef["top"] # NoFile
    /\ step = "back" => (filesRef["top"] # NoFile /\ filesRef["side"] # NoFile)
    /\ step = "done" => \A k \in Slots : filesRef[k] # NoFile

\* C28: a capture callback that runs while the scanner is idle (a reset came
\* between the capture and its callback) changes neither the step, nor the
\* slots and previews, nor the consumer's ImageSet.
C28_ResetNotUndone ==
  [][(step = "idle" /\ mode = "scan" /\ mode' = "scan" /\ Len(pendingCaps') < Len(pendingCaps)) =>
       UNCHANGED <<step, filesRef, previews, appImageFiles>>]_vars

\* C29: while the scanner is mounted at most one camera stream is active, and
\* an active stream is the one held in the component's stream state.
C29_OneTrackedStream ==
  mode = "scan" =>
    /\ Cardinality(activeStreams) <= 1
    /\ \A s \in activeStreams : s = stream

\* C30: a result held by App was computed from the ImageSet App holds.
C30_ResultOfCurrentImageSet ==
  analysisResult # NoResult => analysisResult.of = imagesToAnalyze(appImageFiles)

====
